---- MODULE Spec2Model ----
(***************************************************************************)
(* Model of the flow-agent tool-invocation loop (agent.py) and of its two  *)
(* front ends (agent.py main, flask_app.py run_endpoint).                   *)
(*                                                                         *)
(* Python strings are modelled as sequences of one-character strings, so   *)
(* that strip() and "\n".join() are computed and not assumed.  A missing    *)
(* attribute, None and "" are all falsy in the places the code reads them  *)
(* (getattr(x, "text", "") or ...), and are modelled by the empty sequence.*)
(***************************************************************************)
EXTENDS Integers, Sequences, FiniteSets, TLC

VARIABLES
    frontend,      \* "http" (run_endpoint) or "cli" (main)
    input,         \* http: the parsed JSON body; cli: sys.argv[1:]
    pc,            \* position of the invocation
    prompt,        \* the prompt string handed to run_with_tools
    resp,          \* run_with_tools: local resp
    tool_calls,    \* run_with_tools: local tool_calls
    tool_outputs,  \* run_with_tools: local tool_outputs
    idx,           \* run_with_tools: position of the for loop in tool_calls
    ret,           \* value returned by run_with_tools (NoResp before)
    exc,           \* exception propagating out of run_with_tools / the handler
    final_text,    \* front end: the local holding extract_text(resp)
    reply,         \* what the front end gave its caller
    lastCall,      \* the call just made on the endpoint client, kept until
                   \* the loop starts a round on its response
    ncreate,       \* number of client.responses.create calls made
    nsubmit,       \* number of client.responses.submit_tool_outputs calls made
    nexec,         \* number of tool implementations invoked
    seen,          \* the latest round that held a request for an unregistered
                   \* tool: nsubmit when it was scanned, and whether the round
                   \* also held a request for a registered tool
    api_key,       \* module init: what os.getenv("OPENAI_API_KEY") gave
    page,          \* fetch_url: the fetched document and the take_table flag
    summary,       \* fetch_url: the table_preview of the returned summary
    endpoint,      \* what is assumed of the answers of the model endpoint
    locals         \* two concurrent requests: the locals of run_with_tools in
                   \* each of them

vars == <<frontend, input, pc, prompt, resp, tool_calls, tool_outputs, idx,
          ret, exc, final_text, reply, lastCall, ncreate, nsubmit, nexec,
          seen, api_key, page, summary, endpoint, locals>>

\* the state outside an invocation of a front end
envvars == <<api_key, page, summary, endpoint, locals>>

loopvars == <<resp, tool_calls, tool_outputs, idx, ret, lastCall,
              ncreate, nsubmit, nexec, seen>>

-----------------------------------------------------------------------------
(* Bounds *)

\* longest output sequence the endpoint returns in one response
MaxItems == 2
\* most submit_tool_outputs round-trips explored in one invocation
MaxRounds == 2
\* most rows of a table of a fetched page
MaxRows == 7
\* longest content sequence of a message item given to extract_text
MaxBlocks == 2

-----------------------------------------------------------------------------
(* Strings *)

E == <<>>

IsSpace(c) == c \in {" ", "\n"}

RECURSIVE LStrip(_)
LStrip(s) == IF s # E /\ IsSpace(Head(s)) THEN LStrip(Tail(s)) ELSE s

RECURSIVE RStrip(_)
RStrip(s) ==
    IF s # E /\ IsSpace(s[Len(s)]) THEN RStrip(SubSeq(s, 1, Len(s) - 1)) ELSE s

\* str.strip()
Strip(s) == RStrip(LStrip(s))

\* sep.join(parts)
RECURSIVE Join(_, _)
Join(sep, parts) ==
    IF parts = <<>> THEN E
    ELSE IF Len(parts) = 1 THEN parts[1]
    ELSE parts[1] \o sep \o Join(sep, Tail(parts))

-----------------------------------------------------------------------------
(* Tool registry and tool implementations *)

CUSTOM_TOOLS == {"fetch_url", "analyze_csv"}

NoArgs == [csv |-> "absent", path |-> "absent", url |-> "absent"]

\* a Python value used as a condition: a missing/None/"" argument is falsy
Truthy(a) == a = "given"

ValueErrorMsg == "Provide csv (string) or path."

Result(name) == [kind |-> "result", body |-> name]
Error(msg) == [kind |-> "error", body |-> msg]

\* what an argument of analyze_csv can be: missing or None, "", or a string
ArgVals == {"absent", "empty", "given"}

\* ChooseInput with csv tested before path
ChooseInput_csvFirst(csv, path) ==
    IF Truthy(csv) THEN "csv" ELSE IF Truthy(path) THEN "path" ELSE "neither"

\* lines 42-47: which input analyze_csv reads
ChooseInput(csv, path) ==
    IF Truthy(path) THEN "path" ELSE IF Truthy(csv) THEN "csv" ELSE "neither"

\* analyze_csv(csv, path): the outcomes the call can have: the profile of the
\* data read, the error of reading it, or the ValueError of line 47
analyze_csv(args) ==
    IF args.url # "absent" THEN {Error("TypeError")}
    ELSE CASE ChooseInput(args.csv, args.path) = "path" ->
                  {Result("profile of path"), Error("read_csv(path)")}
           [] ChooseInput(args.csv, args.path) = "csv" ->
                  {Result("profile of csv"), Error("read_csv(csv)")}
           [] OTHER -> {Error(ValueErrorMsg)}

\* fetch_url(url, take_table): the outcomes the call can have
fetch_url(args) ==
    IF args.url = "absent" \/ args.csv # "absent" \/ args.path # "absent"
    THEN {Error("TypeError")}
    ELSE {Result("fetch_url"), Error("requests")}

\* CUSTOM_TOOLS[name](**args)
CallTool(name, args) ==
    IF name = "fetch_url" THEN fetch_url(args) ELSE analyze_csv(args)

\* the document fetch_url parsed: its tables in document order, each a
\* sequence of rows, each row a sequence of cell texts
Page(tables, take_table) == [tables |-> tables, take_table |-> take_table]
NoPage == Page(<<>>, FALSE)

\* table_preview of the summary: None, or a list of rows
Preview(has, rows) == [has_preview |-> has, rows |-> rows]
NoSummary == Preview(FALSE, <<>>)

SeqsUpTo(S, n) == UNION { [1..k -> S] : k \in 0..n }

\* line 34: [:6]
PreviewLimit == 6

\* line 35: c.get_text(strip=True) for every cell of the row
RECURSIVE CellTexts(_)
CellTexts(cells) ==
    IF cells = <<>> THEN <<>>
    ELSE <<Strip(Head(cells))>> \o CellTexts(Tail(cells))

\* lines 33-36: the rows appended for trs, the first PreviewLimit rows of a table
RECURSIVE PreviewRows(_)
PreviewRows(trs) ==
    IF trs = <<>> THEN <<>>
    ELSE <<CellTexts(Head(trs))>> \o PreviewRows(Tail(trs))

\* line 34 without the slice: every row of the table
Slice_all(xs, n) == xs

\* xs[:n]
Slice(xs, n) == SubSeq(xs, 1, IF Len(xs) < n THEN Len(xs) ELSE n)

\* lines 29-37: table_preview of fetch_url
table_preview(p) ==
    IF ~p.take_table THEN NoSummary
    ELSE IF p.tables = <<>> THEN NoSummary
    ELSE Preview(TRUE, PreviewRows(Slice(Head(p.tables), PreviewLimit)))

\* the rows of the fetched tables: no cell, one cell, two cells
RowKinds == { <<>>, <<<<" ", "y">>>>, <<<<"x">>, <<"y", " ">>>> }

\* the fetched pages: no table, one table, or a table followed by another
Pages ==
    LET tables == SeqsUpTo(RowKinds, MaxRows)
        other == <<<<<<"z">>>>>>
    IN  { Page(ts, tk) :
            ts \in {<<>>} \cup { <<t>> : t \in tables }
                          \cup { <<t, other>> : t \in tables },
            tk \in BOOLEAN }

-----------------------------------------------------------------------------
(* Responses of the endpoint *)

\* has_output: whether the response object has a (non-None) output attribute
NoResp == [id |-> 0, has_output |-> FALSE, output |-> <<>>]

\* getattr(resp, "output", []) or []
OutputOf(r) == IF r.has_output THEN r.output ELSE <<>>

Block(type, text, value) == [type |-> type, text |-> text, value |-> value]

ToolCallItem(name, args) ==
    [type |-> "tool_call", id |-> <<0, 0>>, name |-> name, arguments |-> args,
     content |-> <<>>, text |-> E, value |-> E]

MessageItem(content) ==
    [type |-> "message", id |-> <<0, 0>>, name |-> "", arguments |-> NoArgs,
     content |-> content, text |-> E, value |-> E]

BareItem(type, text, value) ==
    [type |-> type, id |-> <<0, 0>>, name |-> "", arguments |-> NoArgs,
     content |-> <<>>, text |-> text, value |-> value]

\* the items the endpoint puts in the responses of a tool loop
LoopItems ==
    { ToolCallItem("fetch_url", [NoArgs EXCEPT !.url = "given"]),
      ToolCallItem("analyze_csv", NoArgs),
      ToolCallItem("web_lookup", NoArgs),
      MessageItem(<<Block("output_text", <<"a">>, E)>>) }

\* a response with identifier rid: every item gets its own correlation token
MkResp(rid, items) ==
    [id |-> rid, has_output |-> TRUE,
     output |-> [k \in 1..Len(items) |-> [items[k] EXCEPT !.id = <<rid, k>>]]]

LoopResponses(rid) ==
    { MkResp(rid, items) : items \in SeqsUpTo(LoopItems, MaxItems) }
    \cup { [NoResp EXCEPT !.id = rid] }

-----------------------------------------------------------------------------
(* extract_text *)

IsTextType(t) == t \in {"output_text", "text"}

\* TextOrValue with the two attributes in the other order
TextOrValue_valueFirst(x) == IF x.value # E THEN x.value ELSE x.text

\* getattr(x, "text", "") or getattr(x, "value", "")
TextOrValue(x) == IF x.text # E THEN x.text ELSE x.value

RECURSIVE BlockChunks(_)
BlockChunks(content) ==
    IF content = <<>> THEN <<>>
    ELSE (IF IsTextType(Head(content).type)
          THEN <<TextOrValue(Head(content))>> ELSE <<>>)
         \o BlockChunks(Tail(content))

\* the chunks one output item appends
ItemChunks(item) ==
    IF item.type = "message" /\ item.content # <<>> THEN BlockChunks(item.content)
    ELSE IF IsTextType(item.type) THEN <<TextOrValue(item)>>
    ELSE <<>>

RECURSIVE Chunks(_)
Chunks(output) ==
    IF output = <<>> THEN <<>>
    ELSE ItemChunks(Head(output)) \o Chunks(Tail(output))

NonEmpty(c) == c # E

extract_text(r) == Join(<<"\n">>, SelectSeq(Chunks(OutputOf(r)), NonEmpty))

\* the requests for analyze_csv, with every combination of csv and path
CsvItems ==
    { ToolCallItem("analyze_csv", [NoArgs EXCEPT !.csv = c, !.path = p]) :
        c \in ArgVals, p \in ArgVals }

CsvResponses == { MkResp(1, items) : items \in SeqsUpTo(CsvItems, MaxItems) }

\* the blocks and items of the responses given to extract_text: a block with
\* text and value, one with value only, an empty one, and one of another type
ExtractBlocks ==
    { Block("output_text", <<"a">>, <<"b">>),
      Block("text", E, <<"b">>),
      Block("text", E, E),
      Block("refusal", <<"c">>, E) }

ExtractItems ==
    { MessageItem(content) : content \in SeqsUpTo(ExtractBlocks, MaxBlocks) }
    \cup { BareItem("text", <<"c">>, <<"b">>),
           BareItem("output_text", E, <<"d">>),
           ToolCallItem("web_lookup", NoArgs) }

ExtractResponses ==
    { MkResp(1, items) : items \in SeqsUpTo(ExtractItems, MaxItems) }
    \cup { [NoResp EXCEPT !.id = 1] }

-----------------------------------------------------------------------------
(* Front-end inputs *)

\* a JSON value of the request body, or the prompt inside it
Json(t, s, n) == [t |-> t, s |-> s, n |-> n]
JNone == Json("none", E, 0)
JStr(s) == Json("str", s, 0)
JNum(n) == Json("num", E, n)
JAbsent == Json("absent", E, 0)

\* what request.get_json(force=True, silent=True) gives: None for a body that
\* is no JSON, a list (of n elements), or an object with its "prompt" member
Body(t, n, p) == [t |-> t, n |-> n, prompt |-> p]

HttpInputs ==
    { Body("none", 0, JAbsent), Body("list", 0, JAbsent), Body("list", 1, JAbsent) }
    \cup { Body("dict", 1, p) :
             p \in { JAbsent, JNone, JStr(E), JStr(<<" ">>), JStr(<<" ", "a", " ">>),
                     JNum(0), JNum(5) } }

CliInputs == { <<>>, <<E>>, <<<<"a">>, <<"b">>>> }

\* bool(x) of a parsed JSON value
JsonTruthy(p) ==
    CASE p.t = "str" -> p.s # E
      [] p.t = "num" -> p.n # 0
      [] OTHER -> FALSE

\* bool(data) of the parsed body: None, [] and {} are falsy
BodyTruthy(b) == b.t \in {"list", "dict"} /\ b.n > 0

\* ParsePrompt with line 74's .strip() left out
ParsePrompt_nostrip(b) ==
    LET data == IF BodyTruthy(b) THEN b ELSE Body("dict", 0, JAbsent)
        p == IF data.t = "dict" /\ JsonTruthy(data.prompt) THEN data.prompt ELSE JStr(E)
    IN  IF data.t # "dict" THEN [raised |-> TRUE, prompt |-> E]
        ELSE IF p.t # "str" THEN [raised |-> TRUE, prompt |-> E]
        ELSE [raised |-> FALSE, prompt |-> p.s]

\* lines 73-74: data = get_json(...) or {}; prompt = (data.get("prompt") or "").strip()
\* gives the stripped prompt, or the AttributeError of calling .get on a list
\* or .strip on a number
ParsePrompt(b) ==
    LET data == IF BodyTruthy(b) THEN b ELSE Body("dict", 0, JAbsent)
        p == IF data.t = "dict" /\ JsonTruthy(data.prompt) THEN data.prompt ELSE JStr(E)
    IN  IF data.t # "dict" THEN [raised |-> TRUE, prompt |-> E]
        ELSE IF p.t # "str" THEN [raised |-> TRUE, prompt |-> E]
        ELSE [raised |-> FALSE, prompt |-> Strip(p.s)]

\* line 149: " ".join(sys.argv[1:])
CliPrompt(argv) == Join(<<" ">>, argv)

Reply(status, ok, text, error) ==
    [status |-> status, ok |-> ok, text |-> text, error |-> error]

NoReply == Reply(0, "absent", E, "")

Placeholder == <<"[No final text output]">>

-----------------------------------------------------------------------------
(* State machine *)

NoCall == [op |-> "none", response_id |-> 0, tool_outputs |-> <<>>]

\* the requests served at the same time
Invocations == {1, 2}

\* the locals of run_with_tools before it is called
NoLocal ==
    [pc |-> "idle", resp |-> NoResp, tool_calls |-> <<>>, tool_outputs |-> <<>>,
     idx |-> 0, ret |-> NoResp, sent |-> NoCall, nsub |-> 0]
\* sent: the submit just made, kept until its answer is scanned

NoLocals == [i \in Invocations |-> NoLocal]
NoneSeen == [at |-> -1, mixed |-> FALSE]

Init ==
    /\ frontend \in {"http", "cli"}
    /\ input \in (IF frontend = "http" THEN HttpInputs ELSE CliInputs)
    /\ pc = "entry"
    /\ prompt = E
    /\ resp = NoResp
    /\ tool_calls = <<>>
    /\ tool_outputs = <<>>
    /\ idx = 0
    /\ ret = NoResp
    /\ exc = ""
    /\ final_text = E
    /\ reply = NoReply
    /\ lastCall = NoCall
    /\ ncreate = 0
    /\ nsubmit = 0
    /\ nexec = 0
    /\ seen = NoneSeen
    /\ api_key = "set"
    /\ endpoint = "any"
    /\ locals = NoLocals
    /\ page = NoPage
    /\ summary = NoSummary

(* run_endpoint, lines 73-76 *)

\* lines 73-74 raise outside the try: the framework answers, not the handler
HttpUnhandled ==
    /\ frontend = "http" /\ pc = "entry"
    /\ ParsePrompt(input).raised
    /\ pc' = "done"
    /\ exc' = "AttributeError"
    /\ reply' = Reply(500, "absent", E, "")
    /\ UNCHANGED envvars
    /\ UNCHANGED <<frontend, input, prompt, final_text>>
    /\ UNCHANGED loopvars

\* lines 75-76
HttpMissingPrompt ==
    /\ frontend = "http" /\ pc = "entry"
    /\ ~ParsePrompt(input).raised
    /\ ParsePrompt(input).prompt = E
    /\ pc' = "done"
    /\ reply' = Reply(400, "false", E, "Missing prompt")
    /\ UNCHANGED envvars
    /\ UNCHANGED <<frontend, input, prompt, exc, final_text>>
    /\ UNCHANGED loopvars

\* lines 77-79
HttpCallLoop ==
    /\ frontend = "http" /\ pc = "entry"
    /\ ~ParsePrompt(input).raised
    /\ ParsePrompt(input).prompt # E
    /\ prompt' = ParsePrompt(input).prompt
    /\ pc' = "create"
    /\ UNCHANGED envvars
    /\ UNCHANGED <<frontend, input, exc, final_text, reply>>
    /\ UNCHANGED loopvars

(* main, lines 144-151 *)

\* lines 145-147
MainUsage ==
    /\ frontend = "cli" /\ pc = "entry"
    /\ Len(input) + 1 < 2
    /\ pc' = "done"
    /\ reply' = Reply(1, "absent", <<"Usage">>, "")
    /\ UNCHANGED envvars
    /\ UNCHANGED <<frontend, input, prompt, exc, final_text>>
    /\ UNCHANGED loopvars

\* lines 149-151
MainCallLoop ==
    /\ frontend = "cli" /\ pc = "entry"
    /\ ~(Len(input) + 1 < 2)
    /\ prompt' = CliPrompt(input)
    /\ pc' = "create"
    /\ UNCHANGED envvars
    /\ UNCHANGED <<frontend, input, exc, final_text, reply>>
    /\ UNCHANGED loopvars

(* run_with_tools *)

\* line 117: the items of the response tagged as tool calls
ToolCalls(r) == SelectSeq(OutputOf(r), LAMBDA it : it.type = "tool_call")

\* the membership test of line 125 against a registry without analyze_csv
Registered_onlyFetch(name) == name = "fetch_url"

\* line 125
Registered(name) == name \in CUSTOM_TOOLS

\* lines 110-114, the endpoint answers
Create ==
    /\ pc = "create"
    /\ \E r \in LoopResponses(1) : resp' = r
    /\ lastCall' = [op |-> "create", response_id |-> 0, tool_outputs |-> <<>>]
    /\ ncreate' = ncreate + 1
    /\ pc' = "scan"
    /\ UNCHANGED envvars
    /\ UNCHANGED <<frontend, input, prompt, tool_calls, tool_outputs, idx,
                   ret, exc, reply, nsubmit, nexec, final_text,
                   seen>>

\* lines 110-114, the endpoint call raises
CreateFails ==
    /\ pc = "create"
    /\ lastCall' = [op |-> "create", response_id |-> 0, tool_outputs |-> <<>>]
    /\ ncreate' = ncreate + 1
    /\ exc' = "endpoint"
    /\ pc' = "raised"
    /\ UNCHANGED envvars
    /\ UNCHANGED <<frontend, input, prompt, resp, tool_calls, tool_outputs,
                   idx, ret, reply, nsubmit, nexec, final_text,
                   seen>>

\* ScanBreak asking the endpoint again instead of returning
ScanBreak_repoll ==
    /\ pc = "scan"
    /\ tool_calls' = ToolCalls(resp)
    /\ tool_calls' = <<>>
    /\ nsubmit < MaxRounds
    /\ \E r \in LoopResponses(resp.id + 1) : resp' = r
    /\ lastCall' = [op |-> "submit", response_id |-> resp.id, tool_outputs |-> <<>>]
    /\ nsubmit' = nsubmit + 1
    /\ pc' = "scan"
    /\ UNCHANGED envvars
    /\ UNCHANGED <<frontend, input, prompt, tool_outputs, idx, ret, exc, reply,
                   ncreate, nexec, final_text, seen>>

\* lines 117-119: no tool call in the response, leave the loop and return
ScanBreak ==
    /\ pc = "scan"
    /\ tool_calls' = ToolCalls(resp)
    /\ tool_calls' = <<>>
    /\ ret' = resp
    /\ pc' = "returned"
    /\ UNCHANGED envvars
    /\ UNCHANGED <<frontend, input, prompt, resp, tool_outputs, idx, exc,
                   reply, lastCall, ncreate, nsubmit, nexec,
                   final_text, seen>>

\* the record of a round whose requests are calls
Observe(calls, old) ==
    IF \E k \in 1..Len(calls) : ~Registered(calls[k].name)
    THEN [at |-> nsubmit,
          mixed |-> \E k \in 1..Len(calls) : Registered(calls[k].name)]
    ELSE old

\* ScanCalls with the list of line 121 created once, before the loop
ScanCalls_noreset ==
    /\ pc = "scan"
    /\ tool_calls' = ToolCalls(resp)
    /\ tool_calls' # <<>>
    /\ idx' = 1
    /\ pc' = "dispatch"
    /\ seen' = Observe(tool_calls', seen)
    /\ lastCall' = NoCall
    /\ UNCHANGED envvars
    /\ UNCHANGED <<frontend, input, prompt, resp, ret, exc, reply, ncreate,
                   nsubmit, nexec, final_text, tool_outputs>>

\* lines 117-122: tool calls found, start the round
ScanCalls ==
    /\ pc = "scan"
    /\ tool_calls' = ToolCalls(resp)
    /\ tool_calls' # <<>>
    /\ tool_outputs' = <<>>
    /\ idx' = 1
    /\ pc' = "dispatch"
    /\ seen' = Observe(tool_calls', seen)
    /\ lastCall' = NoCall
    /\ UNCHANGED envvars
    /\ UNCHANGED <<frontend, input, prompt, resp, ret, exc, reply, ncreate,
                   nsubmit, nexec, final_text>>

\* where the for loop of line 122 goes after the call at idx
AfterCall == IF idx < Len(tool_calls) THEN "dispatch" ELSE "after_for"

\* lines 128 and 130: the entry appended for a call and the outcome of its tool
Entry(call, outcome) == [tool_call_id |-> call.id, output |-> outcome]

\* DispatchRegistered without the try/except of lines 126-130
DispatchRegistered_propagate ==
    /\ pc = "dispatch"
    /\ LET call == tool_calls[idx] IN
        /\ Registered(call.name)
        /\ \E o \in CallTool(call.name, call.arguments) :
            IF o.kind = "error"
            THEN /\ exc' = o.body
                 /\ pc' = "raised"
                 /\ UNCHANGED <<tool_outputs, idx>>
            ELSE /\ tool_outputs' = Append(tool_outputs, Entry(call, o))
                 /\ idx' = idx + 1
                 /\ pc' = AfterCall
                 /\ exc' = exc
    /\ nexec' = nexec + 1
    /\ UNCHANGED envvars
    /\ UNCHANGED <<frontend, input, prompt, resp, tool_calls, ret, reply,
                   lastCall, ncreate, nsubmit, final_text, seen>>

\* lines 123-130: the tool is registered; it returns or raises, and either way
\* one entry is appended
DispatchRegistered ==
    /\ pc = "dispatch"
    /\ LET call == tool_calls[idx] IN
        /\ Registered(call.name)
        /\ \E o \in CallTool(call.name, call.arguments) :
            /\ tool_outputs' = Append(tool_outputs, Entry(call, o))
    /\ nexec' = nexec + 1
    /\ idx' = idx + 1
    /\ pc' = AfterCall
    /\ UNCHANGED envvars
    /\ UNCHANGED <<frontend, input, prompt, resp, tool_calls, ret, exc,
                   reply, lastCall, ncreate, nsubmit, final_text, seen>>

\* DispatchUnknown without the membership test of line 125: a KeyError
DispatchUnknown_keyerror ==
    /\ pc = "dispatch"
    /\ ~Registered(tool_calls[idx].name)
    /\ exc' = "KeyError"
    /\ pc' = "raised"
    /\ UNCHANGED envvars
    /\ UNCHANGED <<frontend, input, prompt, resp, tool_calls, tool_outputs, idx,
                   ret, reply, lastCall, ncreate, nsubmit, nexec, final_text,
                   seen>>

\* lines 123-125: the name is not in the registry; nothing is appended
DispatchUnknown ==
    /\ pc = "dispatch"
    /\ ~Registered(tool_calls[idx].name)
    /\ idx' = idx + 1
    /\ pc' = AfterCall
    /\ UNCHANGED envvars
    /\ UNCHANGED <<frontend, input, prompt, resp, tool_calls, tool_outputs,
                   ret, exc, reply, lastCall, ncreate, nsubmit, nexec, final_text, seen>>

\* line 132 testing "is not None" instead of truthiness
HasOutputs_notNone(outs) == TRUE

\* line 132
HasOutputs(outs) == outs # <<>>

\* Submit continuing from the first response instead of the latest
Submit_firstId ==
    /\ pc = "after_for"
    /\ HasOutputs(tool_outputs)
    /\ nsubmit < MaxRounds
    /\ \E r \in LoopResponses(resp.id + 1) : resp' = r
    /\ lastCall' = [op |-> "submit", response_id |-> 1,
                    tool_outputs |-> tool_outputs]
    /\ nsubmit' = nsubmit + 1
    /\ pc' = "scan"
    /\ UNCHANGED envvars
    /\ UNCHANGED <<frontend, input, prompt, tool_calls, tool_outputs, idx,
                   ret, exc, reply, ncreate, nexec, final_text,
                   seen>>

\* lines 132-136, the endpoint answers
Submit ==
    /\ pc = "after_for"
    /\ HasOutputs(tool_outputs)
    /\ nsubmit < MaxRounds
    /\ \E r \in LoopResponses(resp.id + 1) : resp' = r
    /\ lastCall' = [op |-> "submit", response_id |-> resp.id,
                    tool_outputs |-> tool_outputs]
    /\ nsubmit' = nsubmit + 1
    /\ pc' = "scan"
    /\ UNCHANGED envvars
    /\ UNCHANGED <<frontend, input, prompt, tool_calls, tool_outputs, idx,
                   ret, exc, reply, ncreate, nexec, final_text,
                   seen>>

\* SubmitFails with the failure caught and the last response returned
SubmitFails_swallowed ==
    /\ pc = "after_for"
    /\ HasOutputs(tool_outputs)
    /\ nsubmit < MaxRounds
    /\ lastCall' = [op |-> "submit", response_id |-> resp.id,
                    tool_outputs |-> tool_outputs]
    /\ nsubmit' = nsubmit + 1
    /\ ret' = resp
    /\ pc' = "returned"
    /\ UNCHANGED envvars
    /\ UNCHANGED <<frontend, input, prompt, resp, tool_calls, tool_outputs, idx,
                   exc, reply, ncreate, nexec, final_text, seen>>

\* lines 132-136, the endpoint call raises
SubmitFails ==
    /\ pc = "after_for"
    /\ HasOutputs(tool_outputs)
    /\ nsubmit < MaxRounds
    /\ lastCall' = [op |-> "submit", response_id |-> resp.id,
                    tool_outputs |-> tool_outputs]
    /\ nsubmit' = nsubmit + 1
    /\ exc' = "endpoint"
    /\ pc' = "raised"
    /\ UNCHANGED envvars
    /\ UNCHANGED <<frontend, input, prompt, resp, tool_calls, tool_outputs,
                   idx, ret, reply, ncreate, nexec, final_text,
                   seen>>

\* BreakNoOutputs without the else branch of lines 137-138: the while loop
\* goes round again on the same response
BreakNoOutputs_continue ==
    /\ pc = "after_for"
    /\ ~HasOutputs(tool_outputs)
    /\ pc' = "scan"
    /\ UNCHANGED envvars
    /\ UNCHANGED <<frontend, input, prompt, resp, tool_calls, tool_outputs, ret,
                   idx, exc, reply, lastCall, ncreate, nsubmit, nexec, final_text, seen>>

\* lines 137-139: no output was produced, leave the loop and return
BreakNoOutputs ==
    /\ pc = "after_for"
    /\ ~HasOutputs(tool_outputs)
    /\ ret' = resp
    /\ pc' = "returned"
    /\ UNCHANGED envvars
    /\ UNCHANGED <<frontend, input, prompt, resp, tool_calls, tool_outputs,
                   idx, exc, reply, lastCall, ncreate, nsubmit, nexec, final_text, seen>>

(* run_endpoint line 80, main line 152 *)

\* text = extract_text(resp)
Extract ==
    /\ pc = "returned"
    /\ final_text' = extract_text(ret)
    /\ pc' = "extracted"
    /\ UNCHANGED envvars
    /\ UNCHANGED <<frontend, input, prompt, exc, reply>>
    /\ UNCHANGED loopvars

(* run_endpoint, lines 81-83 *)

\* line 81: text or ""
HttpText(text) == IF text # E THEN text ELSE E

HttpReplyOk ==
    /\ frontend = "http" /\ pc = "extracted"
    /\ reply' = Reply(200, "true", HttpText(final_text), "")
    /\ pc' = "done"
    /\ UNCHANGED envvars
    /\ UNCHANGED <<frontend, input, prompt, exc, final_text>>
    /\ UNCHANGED loopvars

\* lines 82-83
HttpReply500 ==
    /\ frontend = "http" /\ pc = "raised"
    /\ reply' = Reply(500, "false", E, exc)
    /\ pc' = "done"
    /\ UNCHANGED envvars
    /\ UNCHANGED <<frontend, input, prompt, exc, final_text>>
    /\ UNCHANGED loopvars

(* main, lines 152-153 *)

\* line 153: final_text if final_text.strip() else "[No final text output]"
CliText(text) == IF Strip(text) # E THEN text ELSE Placeholder

CliPrint ==
    /\ frontend = "cli" /\ pc = "extracted"
    /\ reply' = Reply(0, "absent", CliText(final_text), "")
    /\ pc' = "done"
    /\ UNCHANGED envvars
    /\ UNCHANGED <<frontend, input, prompt, exc, final_text>>
    /\ UNCHANGED loopvars

\* line 151: the exception is not handled, the process ends with a traceback
CliCrash ==
    /\ frontend = "cli" /\ pc = "raised"
    /\ reply' = Reply(1, "absent", E, exc)
    /\ pc' = "done"
    /\ UNCHANGED envvars
    /\ UNCHANGED <<frontend, input, prompt, exc, final_text>>
    /\ UNCHANGED loopvars

Next ==
    \/ HttpUnhandled
    \/ HttpMissingPrompt
    \/ HttpCallLoop
    \/ MainUsage
    \/ MainCallLoop
    \/ Create
    \/ CreateFails
    \/ ScanBreak
    \/ ScanCalls
    \/ DispatchRegistered
    \/ DispatchUnknown
    \/ Submit
    \/ SubmitFails
    \/ BreakNoOutputs
    \/ Extract
    \/ HttpReplyOk
    \/ HttpReply500
    \/ CliPrint
    \/ CliCrash

Spec == Init /\ [][Next]_vars

(* Process start: agent.py lines 9-15 for the CLI; flask_app.py lines 9-13  *)
(* and, through its import of agent, agent.py lines 9-15 for the server.    *)

\* what os.getenv gives: None, the empty string, or a key
ApiKeys == {"none", "empty", "set"}

\* line 11: if not api_key
KeyMissing(k) == k \in {"none", "empty"}

InitStart ==
    /\ frontend \in {"http", "cli"}
    /\ input \in (IF frontend = "http" THEN HttpInputs ELSE CliInputs)
    /\ pc = "start"
    /\ prompt = E
    /\ resp = NoResp
    /\ tool_calls = <<>>
    /\ tool_outputs = <<>>
    /\ idx = 0
    /\ ret = NoResp
    /\ exc = ""
    /\ final_text = E
    /\ reply = NoReply
    /\ lastCall = NoCall
    /\ ncreate = 0
    /\ nsubmit = 0
    /\ nexec = 0
    /\ seen = NoneSeen
    /\ api_key \in ApiKeys
    /\ endpoint = "any"
    /\ locals = NoLocals
    /\ page = NoPage
    /\ summary = NoSummary

\* StartExit with the error printed and the exit left out
StartExit_noexit ==
    /\ pc = "start"
    /\ KeyMissing(api_key)
    /\ pc' = "entry"
    /\ UNCHANGED envvars
    /\ UNCHANGED <<frontend, input, prompt, exc, final_text, reply>>
    /\ UNCHANGED loopvars

\* agent.py lines 11-13 (sys.exit(1)), flask_app.py lines 11-12 (SystemExit
\* with a message): the process ends with status 1
StartExit ==
    /\ pc = "start"
    /\ KeyMissing(api_key)
    /\ pc' = "exited"
    /\ reply' = Reply(1, "absent", <<"ERROR: OPENAI_API_KEY not found">>, "")
    /\ UNCHANGED envvars
    /\ UNCHANGED <<frontend, input, prompt, exc, final_text>>
    /\ UNCHANGED loopvars

\* agent.py line 15, flask_app.py line 13: the client is built and the front
\* end is entered
StartOk ==
    /\ pc = "start"
    /\ ~KeyMissing(api_key)
    /\ pc' = "entry"
    /\ UNCHANGED envvars
    /\ UNCHANGED <<frontend, input, prompt, exc, final_text, reply>>
    /\ UNCHANGED loopvars

NextStart ==
    \/ StartExit
    \/ StartOk
    \/ Next

SpecStart == InitStart /\ [][NextStart]_vars

(* A round of run_with_tools on a first response that asks for analyze_csv  *)
(* only, from the scan of the response to the end of the for loop.          *)

InitCsv ==
    /\ frontend = "cli"
    /\ input = <<<<"a">>>>
    /\ prompt = <<"a">>
    /\ pc = "scan"
    /\ resp \in CsvResponses
    /\ tool_calls = <<>>
    /\ tool_outputs = <<>>
    /\ idx = 0
    /\ ret = NoResp
    /\ exc = ""
    /\ final_text = E
    /\ reply = NoReply
    /\ lastCall = [op |-> "create", response_id |-> 0, tool_outputs |-> <<>>]
    /\ ncreate = 1
    /\ nsubmit = 0
    /\ nexec = 0
    /\ seen = NoneSeen
    /\ api_key = "set"
    /\ endpoint = "any"
    /\ locals = NoLocals
    /\ page = NoPage
    /\ summary = NoSummary

NextCsv ==
    \/ ScanBreak
    \/ ScanCalls
    \/ DispatchRegistered

SpecCsv == InitCsv /\ [][NextCsv]_vars

(* fetch_url on a fetched page, lines 29-38 *)

InitFetch ==
    /\ frontend = "cli"
    /\ input = <<<<"a">>>>
    /\ prompt = <<"a">>
    /\ pc = "fetch"
    /\ resp = NoResp
    /\ tool_calls = <<>>
    /\ tool_outputs = <<>>
    /\ idx = 0
    /\ ret = NoResp
    /\ exc = ""
    /\ final_text = E
    /\ reply = NoReply
    /\ lastCall = NoCall
    /\ ncreate = 0
    /\ nsubmit = 0
    /\ nexec = 0
    /\ seen = NoneSeen
    /\ api_key = "set"
    /\ endpoint = "any"
    /\ locals = NoLocals
    /\ page \in Pages
    /\ summary = NoSummary

FetchSummary ==
    /\ pc = "fetch"
    /\ summary' = table_preview(page)
    /\ pc' = "fetched"
    /\ UNCHANGED <<api_key, page, endpoint, locals>>
    /\ UNCHANGED <<frontend, input, prompt, exc, final_text, reply>>
    /\ UNCHANGED loopvars

NextFetch == FetchSummary

SpecFetch == InitFetch /\ [][NextFetch]_vars

(* run_with_tools from its first response on, with an endpoint that always  *)
(* answers and either settles (its answer to the last submit explored holds *)
(* no tool call) or insists (every answer asks for a registered tool).      *)

\* whether a response asks for a registered tool
AsksRegistered(r) ==
    \E k \in 1..Len(ToolCalls(r)) : Registered(ToolCalls(r)[k].name)

\* the answers of the endpoint to its call number n of the invocation
Answers(mode, rid, n) ==
    CASE mode = "insists" -> { r \in LoopResponses(rid) : AsksRegistered(r) }
      [] mode = "settles" /\ n > MaxRounds ->
             { r \in LoopResponses(rid) : ToolCalls(r) = <<>> }
      [] OTHER -> LoopResponses(rid)

InitLive ==
    /\ frontend = "cli"
    /\ input = <<<<"a">>>>
    /\ prompt = <<"a">>
    /\ pc = "scan"
    /\ endpoint \in {"settles", "insists"}
    /\ locals = NoLocals
    /\ resp \in Answers(endpoint, 1, 1)
    /\ tool_calls = <<>>
    /\ tool_outputs = <<>>
    /\ idx = 0
    /\ ret = NoResp
    /\ exc = ""
    /\ final_text = E
    /\ reply = NoReply
    /\ lastCall = [op |-> "create", response_id |-> 0, tool_outputs |-> <<>>]
    /\ ncreate = 1
    /\ nsubmit = 0
    /\ nexec = 0
    /\ seen = NoneSeen
    /\ api_key = "set"
    /\ page = NoPage
    /\ summary = NoSummary

\* lines 132-136, the endpoint answers as assumed of it
SubmitLive ==
    /\ pc = "after_for"
    /\ HasOutputs(tool_outputs)
    /\ nsubmit < MaxRounds
    /\ \E r \in Answers(endpoint, resp.id + 1, nsubmit + 2) : resp' = r
    /\ lastCall' = [op |-> "submit", response_id |-> resp.id,
                    tool_outputs |-> tool_outputs]
    /\ nsubmit' = nsubmit + 1
    /\ pc' = "scan"
    /\ UNCHANGED envvars
    /\ UNCHANGED <<frontend, input, prompt, tool_calls, tool_outputs, idx,
                   ret, exc, reply, ncreate, nexec, final_text,
                   seen>>

NextLive ==
    \/ ScanBreak
    \/ ScanCalls
    \/ DispatchRegistered
    \/ DispatchUnknown
    \/ SubmitLive
    \/ BreakNoOutputs

\* every call returns: a step of the loop that can be taken is taken
SpecLive == InitLive /\ [][NextLive]_vars /\ WF_vars(NextLive)

(* Two requests served at the same time (flask_app.py run_endpoint, lines    *)
(* 77-79): each runs run_with_tools on its own locals; the module-level      *)
(* client and CUSTOM_TOOLS are only read.  The endpoint opens a conversation *)
(* for every create and answers a submit in the conversation of the          *)
(* response id it is given.                                                  *)

\* the ids the endpoint gives the responses of the conversation opened by the
\* create of invocation i, and the conversation of a response id
FirstId(i) == (i - 1) * (MaxRounds + 1) + 1
ConvOf(rid) == ((rid - 1) \div (MaxRounds + 1)) + 1

\* items of the responses: a request for a registered tool, one for an
\* unregistered tool
ConcItems ==
    { ToolCallItem("analyze_csv", NoArgs), ToolCallItem("web_lookup", NoArgs) }

ConcResponses(rid) == { MkResp(rid, items) : items \in SeqsUpTo(ConcItems, MaxItems) }

\* everything but the locals of the two invocations
single == <<frontend, input, pc, prompt, exc, final_text, reply, api_key, page,
            summary, endpoint>>

InitConc ==
    /\ frontend = "http"
    /\ input = Body("object", "true", JStr(<<"a">>))
    /\ prompt = <<"a">>
    /\ pc = "serving"
    /\ resp = NoResp
    /\ tool_calls = <<>>
    /\ tool_outputs = <<>>
    /\ idx = 0
    /\ ret = NoResp
    /\ exc = ""
    /\ final_text = E
    /\ reply = NoReply
    /\ lastCall = NoCall
    /\ ncreate = 0
    /\ nsubmit = 0
    /\ nexec = 0
    /\ seen = NoneSeen
    /\ api_key = "set"
    /\ page = NoPage
    /\ summary = NoSummary
    /\ endpoint = "any"
    /\ locals = [i \in Invocations |-> [NoLocal EXCEPT !.pc = "create"]]

\* lines 110-114
ConcCreate(i) ==
    /\ locals[i].pc = "create"
    /\ \E r \in ConcResponses(FirstId(i)) :
         locals' = [locals EXCEPT ![i] = [@ EXCEPT !.resp = r, !.pc = "scan"]]
    /\ UNCHANGED single
    /\ UNCHANGED loopvars

\* lines 117-121
ConcScan(i) ==
    /\ locals[i].pc = "scan"
    /\ LET calls == ToolCalls(locals[i].resp) IN
         locals' = [locals EXCEPT ![i] =
            IF calls = <<>>
            THEN [@ EXCEPT !.tool_calls = calls, !.ret = locals[i].resp,
                           !.sent = NoCall, !.pc = "returned"]
            ELSE [@ EXCEPT !.tool_calls = calls, !.tool_outputs = <<>>,
                           !.sent = NoCall, !.idx = 1, !.pc = "dispatch"]]
    /\ UNCHANGED single
    /\ UNCHANGED loopvars

\* the locals of an invocation after the call at its idx, with outs as its
\* tool_outputs
AfterDispatch(l, outs) ==
    [l EXCEPT !.tool_outputs = outs, !.idx = @ + 1,
              !.pc = IF l.idx < Len(l.tool_calls) THEN "dispatch" ELSE "after_for"]

\* ConcDispatch with tool_outputs a module-level list instead of a local
ConcDispatch_shared(i) ==
    /\ locals[i].pc = "dispatch"
    /\ LET l == locals[i]
           call == l.tool_calls[l.idx]
       IN  IF Registered(call.name)
           THEN \E o \in CallTool(call.name, call.arguments) :
                  locals' = [j \in Invocations |->
                     IF j = i
                     THEN AfterDispatch(l, Append(l.tool_outputs, Entry(call, o)))
                     ELSE [locals[j] EXCEPT !.tool_outputs = Append(@, Entry(call, o))]]
           ELSE locals' = [locals EXCEPT ![i] = AfterDispatch(l, l.tool_outputs)]
    /\ UNCHANGED single
    /\ UNCHANGED loopvars

\* lines 122-130
ConcDispatch(i) ==
    /\ locals[i].pc = "dispatch"
    /\ LET l == locals[i]
           call == l.tool_calls[l.idx]
       IN  IF Registered(call.name)
           THEN \E o \in CallTool(call.name, call.arguments) :
                  locals' = [locals EXCEPT ![i] =
                     AfterDispatch(l, Append(l.tool_outputs, Entry(call, o)))]
           ELSE locals' = [locals EXCEPT ![i] = AfterDispatch(l, l.tool_outputs)]
    /\ UNCHANGED single
    /\ UNCHANGED loopvars

\* lines 132-136: the answer continues the conversation of the id sent
ConcSubmit(i) ==
    /\ locals[i].pc = "after_for"
    /\ HasOutputs(locals[i].tool_outputs)
    /\ locals[i].nsub < MaxRounds
    /\ LET l == locals[i]
           call == [op |-> "submit", response_id |-> l.resp.id,
                    tool_outputs |-> l.tool_outputs]
       IN  \E r \in ConcResponses(call.response_id + 1) :
             locals' = [locals EXCEPT ![i] =
                [@ EXCEPT !.resp = r, !.sent = call, !.nsub = @ + 1, !.pc = "scan"]]
    /\ UNCHANGED single
    /\ UNCHANGED loopvars

\* lines 137-139
ConcBreak(i) ==
    /\ locals[i].pc = "after_for"
    /\ ~HasOutputs(locals[i].tool_outputs)
    /\ locals' = [locals EXCEPT ![i] = [@ EXCEPT !.ret = locals[i].resp, !.pc = "returned"]]
    /\ UNCHANGED single
    /\ UNCHANGED loopvars

NextConc ==
    \/ \E i \in Invocations : ConcCreate(i)
    \/ \E i \in Invocations : ConcScan(i)
    \/ \E i \in Invocations : ConcDispatch(i)
    \/ \E i \in Invocations : ConcSubmit(i)
    \/ \E i \in Invocations : ConcBreak(i)

SpecConc == InitConc /\ [][NextConc]_vars

(* The HTTP front end from the return of run_with_tools on: the response is *)
(* the first one of the endpoint, returned by line 119 or by line 138.      *)

InitExtract ==
    /\ frontend = "http"
    /\ input = Body("dict", 1, JStr(<<"a">>))
    /\ prompt = <<"a">>
    /\ pc = "returned"
    /\ ret \in ExtractResponses
    /\ resp = ret
    /\ tool_calls = ToolCalls(ret)
    /\ tool_outputs = <<>>
    /\ idx = (IF tool_calls = <<>> THEN 0 ELSE Len(tool_calls) + 1)
    /\ exc = ""
    /\ final_text = E
    /\ reply = NoReply
    /\ lastCall = (IF tool_calls = <<>>
                   THEN [op |-> "create", response_id |-> 0, tool_outputs |-> <<>>]
                   ELSE NoCall)
    /\ ncreate = 1
    /\ nsubmit = 0
    /\ nexec = 0
    /\ seen = (IF tool_calls = <<>> THEN NoneSeen ELSE [at |-> 0, mixed |-> FALSE])
    /\ api_key = "set"
    /\ endpoint = "any"
    /\ locals = NoLocals
    /\ page = NoPage
    /\ summary = NoSummary

NextExtract ==
    \/ Extract
    \/ HttpReplyOk

SpecExtract == InitExtract /\ [][NextExtract]_vars

-----------------------------------------------------------------------------
(* Vocabulary of the properties *)

IsCall(it) == it.type = "tool_call"

\* the response holds no tool-call item
ZeroCalls(r) == \A k \in 1..Len(OutputOf(r)) : ~IsCall(OutputOf(r)[k])

\* the response holds tool-call items, and each names a tool outside the registry
AllCallsUnknown(r) ==
    /\ \E k \in 1..Len(OutputOf(r)) : IsCall(OutputOf(r)[k])
    /\ \A k \in 1..Len(OutputOf(r)) :
         IsCall(OutputOf(r)[k]) => OutputOf(r)[k].name \notin CUSTOM_TOOLS

\* number of entries of a batch that carry the correlation token id
EntriesFor(batch, id) ==
    Cardinality({ j \in 1..Len(batch) : batch[j].tool_call_id = id })

Last(q) == q[Len(q)]

InLoop == pc \in {"scan", "dispatch", "after_for"}
Returned == pc \in {"returned", "extracted"} \/ (pc = "done" /\ ret # NoResp)

-----------------------------------------------------------------------------
(* C1: every batch passed to submit_tool_outputs holds exactly one entry for *)
(* each tool-call request of the round it answers, whatever the tool names.  *)
C1_EveryRequestAnswered ==
    lastCall.op = "submit" =>
        \A k \in 1..Len(tool_calls) :
            EntriesFor(lastCall.tool_outputs, tool_calls[k].id) = 1

-----------------------------------------------------------------------------
(* C2: a response without tool-call items is returned as it is: the step    *)
(* that scans it returns it with no tool run and no endpoint call, and once  *)
(* run_with_tools has returned, no tool runs and no endpoint call is made.   *)
C2_TerminalResponseReturned ==
    [][ /\ (pc = "scan" /\ ZeroCalls(resp)) =>
             (pc' = "returned" /\ ret' = resp
              /\ UNCHANGED <<ncreate, nsubmit, nexec>>)
        /\ Returned => UNCHANGED <<ret, resp, ncreate, nsubmit, nexec>> ]_vars

\* the final response came from a submit, holds no tool call, and was returned
C2_Witness ==
    /\ pc = "done" /\ ret.id > 1 /\ ret.has_output /\ ZeroCalls(ret)
    /\ nsubmit = ret.id - 1 /\ nexec > 0

-----------------------------------------------------------------------------
(* C3: a registered tool that raises does not end the invocation: its        *)
(* request gets one entry with its id and the error payload, the for loop    *)
(* goes on to the next request, and a round that has an entry is submitted.  *)
C3_ToolErrorCaptured ==
    /\ [][ (pc = "dispatch" /\ Registered(tool_calls[idx].name)) =>
             /\ nexec' = nexec + 1
             /\ exc' = ""
             /\ pc' = (IF idx < Len(tool_calls) THEN "dispatch" ELSE "after_for")
             /\ idx' = idx + 1
             /\ Len(tool_outputs') = Len(tool_outputs) + 1
             /\ SubSeq(tool_outputs', 1, Len(tool_outputs)) = tool_outputs
             /\ Last(tool_outputs').tool_call_id = tool_calls[idx].id
             /\ Last(tool_outputs').output \in
                    CallTool(tool_calls[idx].name, tool_calls[idx].arguments)
             /\ Last(tool_outputs').output.kind \in {"result", "error"}
             /\ EntriesFor(tool_outputs', tool_calls[idx].id) = 1 ]_vars
    /\ [][ (pc = "after_for" /\ tool_outputs # <<>>) =>
             /\ nsubmit' = nsubmit + 1
             /\ lastCall'.op = "submit"
             /\ lastCall'.tool_outputs = tool_outputs
             /\ pc' \in {"scan", "raised"} ]_vars
    /\ [](exc \in {"", "endpoint", "AttributeError"})

\* a batch was submitted in which a tool error is followed by a tool result
C3_Witness ==
    /\ pc = "scan" /\ lastCall.op = "submit" /\ exc = ""
    /\ \E i, j \in 1..Len(lastCall.tool_outputs) :
         /\ i < j
         /\ lastCall.tool_outputs[i].output.kind = "error"
         /\ lastCall.tool_outputs[j].output.kind = "result"

-----------------------------------------------------------------------------
(* C4: when every request of the response names an unregistered tool, the   *)
(* round runs no tool and makes no endpoint call, and it ends by returning   *)
(* that response, tool-call items included.                                  *)
C4_AllUnknownBreaks ==
    [][ (InLoop /\ AllCallsUnknown(resp)) =>
          /\ UNCHANGED <<resp, ncreate, nsubmit, nexec>>
          /\ tool_outputs' = <<>>
          /\ pc' \in {"dispatch", "after_for", "returned"}
          /\ (pc = "after_for" => pc' = "returned")
          /\ (pc' = "returned" => ret' = resp) ]_vars

\* a response of unregistered requests only was returned, after a submit
C4_Witness ==
    /\ pc = "returned" /\ AllCallsUnknown(ret) /\ Len(ToolCalls(ret)) = MaxItems
    /\ nsubmit > 0 /\ lastCall.op = "none"

-----------------------------------------------------------------------------
(* C5, as claimed: after a round that held a request for an unregistered    *)
(* tool, at most one more endpoint round-trip is made.                       *)
C5_ReturnsWithinOneRoundTrip ==
    seen.at >= 0 => nsubmit <= seen.at + 1

(* C5, amended: a request for an unregistered tool raises nothing; a round   *)
(* of unregistered requests only returns with no further round-trip; a round *)
(* that also holds a registered request does not return: it is submitted.    *)
C5_UnknownToolHarmless ==
    /\ seen.at >= 0 => exc \in {"", "endpoint"}
    /\ (seen.at >= 0 /\ ~seen.mixed) =>
          /\ nsubmit = seen.at
          /\ exc = ""
          /\ pc \in {"dispatch", "after_for", "returned", "extracted", "done"}
    /\ (seen.at >= 0 /\ seen.mixed /\ nsubmit = seen.at) =>
          pc \in {"dispatch", "after_for"}

\* the response of a submit held unregistered requests only, and was returned
\* with no further round-trip
C5_Witness ==
    /\ pc = "returned" /\ seen.at = 1 /\ ~seen.mixed /\ nsubmit = 1
    /\ AllCallsUnknown(ret) /\ ret.id = 2 /\ exc = ""

-----------------------------------------------------------------------------
(* C6: a failure of create or of submit_tool_outputs reaches the caller: no  *)
(* response is returned, and no tool runs and no endpoint call is made       *)
(* after it.                                                                 *)
C6_EndpointFailurePropagates ==
    /\ [][ (ncreate' + nsubmit' > ncreate + nsubmit /\ resp' = resp) =>
             (pc' = "raised" /\ exc' = "endpoint" /\ ret' = NoResp) ]_vars
    /\ [](exc = "endpoint" =>
            /\ pc \in {"raised", "done"}
            /\ ret = NoResp
            /\ final_text = E
            /\ (pc = "done" => (reply.ok # "true" /\ reply.status \notin {0, 200})))
    /\ [][ (pc = "raised" \/ exc = "endpoint") =>
             UNCHANGED <<exc, ret, resp, ncreate, nsubmit, nexec>> ]_vars

\* a submit failed after tools had run, and the front end has reported it
C6_Witness ==
    /\ pc = "done" /\ exc = "endpoint" /\ lastCall.op = "submit"
    /\ nsubmit = MaxRounds /\ nexec > 0 /\ reply.error = "endpoint"

-----------------------------------------------------------------------------
(* C7: every POST /run ends in one of three replies: 200 with ok=true iff    *)
(* the prompt is non-empty and nothing was raised, 400 with ok=false iff the *)
(* prompt is missing or blank, 500 with ok=false and the exception message   *)
(* iff the prompt is non-empty and an exception was raised.                  *)

\* the body carries no prompt, or a prompt that is empty or blank
PromptMissingOrBlank(b) ==
    \/ b.t # "dict"
    \/ b.prompt.t \in {"absent", "none"}
    \/ b.prompt.t = "num" /\ b.prompt.n = 0
    \/ b.prompt.t = "str" /\ \A k \in 1..Len(b.prompt.s) : IsSpace(b.prompt.s[k])

C7_ThreeOutcomes ==
    (frontend = "http" /\ pc = "done") =>
        LET blank == PromptMissingOrBlank(input)
            ok200 == reply.status = 200 /\ reply.ok = "true"
            bad400 == reply.status = 400 /\ reply.ok = "false"
            err500 == reply.status = 500 /\ reply.ok = "false"
                      /\ exc # "" /\ reply.error = exc
        IN  /\ ok200 \/ bad400 \/ err500
            /\ ok200 <=> (~blank /\ exc = "")
            /\ bad400 <=> blank
            /\ err500 <=> (~blank /\ exc # "")

-----------------------------------------------------------------------------
(* C8, as claimed: invalid input never leads to an endpoint call: none for a *)
(* missing or blank prompt, none for a CLI run without argument, and no      *)
(* batch is submitted that holds nothing but analyze_csv's validation error. *)
C8_InvalidInputNoEndpointCall ==
    /\ (frontend = "http" /\ PromptMissingOrBlank(input)) => ncreate + nsubmit = 0
    /\ (frontend = "cli" /\ input = <<>>) => ncreate + nsubmit = 0
    /\ lastCall.op = "submit" =>
          \E j \in 1..Len(lastCall.tool_outputs) :
              lastCall.tool_outputs[j].output # Error(ValueErrorMsg)

\* the request is analyze_csv with neither csv nor path usable
NeitherCsvNorPath(call) ==
    /\ call.name = "analyze_csv"
    /\ call.arguments.csv \in {"absent", "empty"}
    /\ call.arguments.path \in {"absent", "empty"}
    /\ call.arguments.url = "absent"

(* C8, amended: a POST /run with a missing or blank prompt and a CLI run     *)
(* without argument end at once, with no endpoint call and no tool run;      *)
(* analyze_csv with neither csv nor path fails at once with its validation   *)
(* error and makes no endpoint call itself, but the loop puts that error in  *)
(* the round's batch, which is submitted.                                    *)
C8_ValidationErrors ==
    /\ []((frontend = "http" /\ PromptMissingOrBlank(input)) =>
            /\ ncreate + nsubmit + nexec = 0
            /\ pc \in {"entry", "done"}
            /\ (pc = "done" => reply.status \in {400, 500} /\ reply.ok # "true"))
    /\ []((frontend = "cli" /\ input = <<>>) =>
            /\ ncreate + nsubmit + nexec = 0
            /\ pc \in {"entry", "done"}
            /\ (pc = "done" => reply.status = 1))
    /\ [][ (pc = "dispatch" /\ NeitherCsvNorPath(tool_calls[idx])) =>
             /\ tool_outputs' =
                   Append(tool_outputs,
                          [tool_call_id |-> tool_calls[idx].id,
                           output |-> Error(ValueErrorMsg)])
             /\ UNCHANGED <<ncreate, nsubmit, exc>>
             /\ pc' \in {"dispatch", "after_for"} ]_vars
    /\ [][ (pc = "after_for" /\ tool_outputs # <<>>) =>
             (lastCall'.op = "submit" /\ lastCall'.tool_outputs = tool_outputs) ]_vars

\* a batch holding only analyze_csv's validation error went to the endpoint
C8_Witness ==
    /\ lastCall.op = "submit" /\ Len(lastCall.tool_outputs) = 1
    /\ lastCall.tool_outputs[1].output = Error(ValueErrorMsg)
    /\ NeitherCsvNorPath(tool_calls[1])

-----------------------------------------------------------------------------
(* C9: when extract_text gives the empty string for the returned response,   *)
(* the front end shows a placeholder, not an empty text.                     *)
C9_PlaceholderForEmptyText ==
    (pc = "done" /\ ncreate = 1 /\ exc = "" /\ final_text = E) =>
        (reply.text # E /\ reply.text = Placeholder)

-----------------------------------------------------------------------------
(* C10: extract_text gives the text values of the text/output_text blocks of *)
(* message items and of the bare text/output_text items, in document order,  *)
(* joined by newlines; a value is the text field if non-empty, else the      *)
(* value field; empty values are skipped; no value or no output gives "".    *)

IsTextual(x) == x.type = "output_text" \/ x.type = "text"

TextValue(x) == IF Len(x.text) > 0 THEN x.text ELSE x.value

\* the non-empty text values of a sequence of blocks or bare items, in order
ValuesOf(xs) ==
    LET kept == SelectSeq(xs, LAMBDA x : IsTextual(x) /\ Len(TextValue(x)) > 0)
    IN  [k \in 1..Len(kept) |-> TextValue(kept[k])]

\* the non-empty text values of the output items up to the n-th, in order
RECURSIVE ValuesUpTo(_, _)
ValuesUpTo(output, n) ==
    IF n = 0 THEN <<>>
    ELSE ValuesUpTo(output, n - 1) \o
         (IF output[n].type = "message" THEN ValuesOf(output[n].content)
          ELSE ValuesOf(<<output[n]>>))

\* the values up to the n-th, each but the first preceded by a newline
RECURSIVE NewlineJoined(_, _)
NewlineJoined(values, n) ==
    IF n = 0 THEN <<>>
    ELSE IF n = 1 THEN values[1]
    ELSE NewlineJoined(values, n - 1) \o <<"\n">> \o values[n]

ExpectedText(r) ==
    IF ~r.has_output THEN <<>>
    ELSE LET values == ValuesUpTo(r.output, Len(r.output))
         IN  NewlineJoined(values, Len(values))

C10_ExtractText ==
    pc \in {"extracted", "done"} => final_text = ExpectedText(ret)

\* a message whose block has text and value, with an empty block after it,
\* then a bare item with a value only: text is preferred, the empty value is
\* skipped, the value is the fallback, and the order is the document's
C10_Witness ==
    /\ pc = "extracted"
    /\ Len(ret.output) = 2
    /\ ret.output[1].type = "message"
    /\ ret.output[1].content = <<Block("output_text", <<"a">>, <<"b">>),
                                 Block("text", E, E)>>
    /\ ret.output[2] = [BareItem("output_text", E, <<"d">>) EXCEPT !.id = <<1, 2>>]
    /\ final_text = <<"a", "\n", "d">>

-----------------------------------------------------------------------------
(* C11: with the credential absent at process start, neither front end      *)
(* serves a request or calls the endpoint: the process exits with status 1  *)
(* before the prompt is read or a request is handled.                       *)
C11_NoCredentialNoService ==
    api_key \in {"none", "empty"} =>
        /\ pc \in {"start", "exited"}
        /\ prompt = E
        /\ ncreate + nsubmit + nexec = 0
        /\ ret = NoResp
        /\ (pc = "exited" => reply.status = 1 /\ reply.ok = "absent")
        /\ (pc = "start" => reply = NoReply)

\* the server process has exited for lack of the credential, with a request
\* that would otherwise have run the loop
C11_Witness ==
    /\ api_key = "none" /\ pc = "exited" /\ frontend = "http"
    /\ ~PromptMissingOrBlank(input) /\ ~ParsePrompt(input).raised
    /\ reply.status = 1

-----------------------------------------------------------------------------
(* C12: for every combination of csv and path (absent, empty, non-empty),    *)
(* analyze_csv reads path when path is non-empty, whatever csv is; else it   *)
(* parses csv when csv is non-empty; else, and only then, it fails with its  *)
(* validation error.                                                         *)
C12_CsvInputRule ==
    \A k \in 1..Len(tool_outputs) :
        LET c == tool_calls[k].arguments.csv
            p == tool_calls[k].arguments.path
            o == tool_outputs[k].output
        IN  /\ tool_outputs[k].tool_call_id = tool_calls[k].id
            /\ p = "given" => o \in {Result("profile of path"), Error("read_csv(path)")}
            /\ (p # "given" /\ c = "given") =>
                   o \in {Result("profile of csv"), Error("read_csv(csv)")}
            /\ (p # "given" /\ c # "given") => o = Error(ValueErrorMsg)
            /\ o = Error(ValueErrorMsg) => (p # "given" /\ c # "given")

\* both given: path was read; then an empty path with a csv: csv was parsed
C12_Witness ==
    /\ pc = "after_for" /\ Len(tool_outputs) = 2
    /\ tool_calls[1].arguments = [NoArgs EXCEPT !.csv = "given", !.path = "given"]
    /\ tool_outputs[1].output = Result("profile of path")
    /\ tool_calls[2].arguments = [NoArgs EXCEPT !.csv = "given", !.path = "empty"]
    /\ tool_outputs[2].output = Result("profile of csv")

-----------------------------------------------------------------------------
(* C13: table_preview is absent when take_table is false or the page has no *)
(* table; otherwise it is the first min(6, n) rows of the first table, in    *)
(* order, each with as many entries as its source row has cells (the cell    *)
(* texts, stripped).                                                         *)
C13_TablePreview ==
    pc = "fetched" =>
        IF ~page.take_table \/ Len(page.tables) = 0
        THEN ~summary.has_preview
        ELSE LET src == page.tables[1]
                 n == Len(src)
             IN  /\ summary.has_preview
                 /\ Len(summary.rows) = (IF n < 6 THEN n ELSE 6)
                 /\ \A k \in 1..Len(summary.rows) :
                      /\ Len(summary.rows[k]) = Len(src[k])
                      /\ \A j \in 1..Len(src[k]) :
                           summary.rows[k][j] = Strip(src[k][j])

\* a first table of seven rows with rows of zero, one and two cells, followed
\* by another table: six rows are kept
C13_Witness ==
    /\ pc = "fetched" /\ page.take_table /\ Len(page.tables) = 2
    /\ Len(page.tables[1]) = 7 /\ Len(summary.rows) = 6
    /\ Len(page.tables[1][1]) = 2 /\ Len(page.tables[1][6]) = 1
    /\ Len(page.tables[1][7]) = 0
    /\ summary.rows[1] = <<<<"x">>, <<"y">>>>

-----------------------------------------------------------------------------
(* C14: a round with at least one output makes exactly one submit, after all *)
(* requests of the response were processed one by one in order; the submit   *)
(* carries the batch and the id of the response just processed, which is the *)
(* most recent one; the response it returns is the one scanned next.         *)
C14_OneSubmitPerRound ==
    [][ /\ (pc = "dispatch" => idx' = idx + 1 /\ resp' = resp
                                /\ nsubmit' = nsubmit)
        /\ ((pc = "after_for" /\ tool_outputs # <<>>) => nsubmit' = nsubmit + 1)
        /\ (nsubmit' # nsubmit =>
              /\ nsubmit' = nsubmit + 1
              /\ pc = "after_for"
              /\ tool_calls = ToolCalls(resp)
              /\ idx = Len(tool_calls) + 1
              /\ tool_outputs # <<>>
              /\ resp.id = ncreate + nsubmit
              /\ lastCall' = [op |-> "submit", response_id |-> resp.id,
                              tool_outputs |-> tool_outputs]
              /\ (pc' = "scan" => resp'.id = resp.id + 1))
        /\ (pc = "scan" => tool_calls' = ToolCalls(resp) /\ resp' = resp)
      ]_vars

\* the second submit of an invocation was made, from a round of two requests
\* of which one was registered, and its answer is about to be scanned
C14_Witness ==
    /\ pc = "scan" /\ nsubmit = 2 /\ resp.id = 3
    /\ lastCall.op = "submit" /\ lastCall.response_id = 2
    /\ Len(tool_calls) = 2 /\ Len(lastCall.tool_outputs) = 1

-----------------------------------------------------------------------------
\* the ids of the requests or of the entries of a batch, in order
CallIds(calls) == [k \in 1..Len(calls) |-> calls[k].id]
BatchIds(batch) == [k \in 1..Len(batch) |-> batch[k].tool_call_id]
RegisteredCalls(r) == SelectSeq(ToolCalls(r), LAMBDA c : Registered(c.name))

(* C15: every submitted batch is exactly the subsequence, in request order,  *)
(* of the current round's requests whose tool is registered: unregistered    *)
(* requests get no entry and no id of an earlier round appears.              *)
C15_BatchIsRegisteredSubsequence ==
    [][ nsubmit' # nsubmit =>
          LET batch == lastCall'.tool_outputs IN
          /\ BatchIds(batch) = CallIds(RegisteredCalls(resp))
          /\ \A k \in 1..Len(batch) : batch[k].tool_call_id[1] = resp.id
          /\ \A k \in 1..Len(ToolCalls(resp)) :
               ~Registered(ToolCalls(resp)[k].name) =>
                   EntriesFor(batch, ToolCalls(resp)[k].id) = 0
      ]_vars

\* the second round requested an unregistered tool and then a registered one
\* after a first round that produced outputs; its batch holds one entry
C15_Witness ==
    /\ nsubmit = 2 /\ lastCall.op = "submit"
    /\ Len(tool_calls) = 2 /\ tool_calls[1].name = "web_lookup"
    /\ BatchIds(lastCall.tool_outputs) = << <<2, 2>> >>

-----------------------------------------------------------------------------
(* C16: if every call returns and the endpoint eventually answers without a *)
(* tool call, run_with_tools eventually returns; the loop has no cap of its  *)
(* own: against an endpoint that asks for a registered tool in every answer  *)
(* it never returns and is still submitting after every round explored.      *)
C16_TerminatesOnlyWhenEndpointSettles ==
    /\ <>(endpoint = "settles" => pc = "returned")
    /\ [](endpoint = "insists" => pc # "returned")
    /\ <>(endpoint = "insists" =>
            (pc = "after_for" /\ nsubmit = MaxRounds /\ HasOutputs(tool_outputs)))

\* the endpoint asked for tools in every answer but the last one explored,
\* and the loop returned that one
C16_Witness ==
    /\ endpoint = "settles" /\ pc = "returned"
    /\ nsubmit = MaxRounds /\ nexec >= MaxRounds /\ ZeroCalls(ret)

-----------------------------------------------------------------------------
(* C17: a response returned by run_with_tools is the last one received from *)
(* the endpoint, and it holds no tool-call item or only tool-call items      *)
(* whose names are not in the registry.                                      *)
C17_ReturnedIsLastAndUnserviceable ==
    Returned =>
        /\ ret = resp
        /\ ret.id = ncreate + nsubmit
        /\ \A k \in 1..Len(OutputOf(ret)) :
             OutputOf(ret)[k].type = "tool_call" =>
                 OutputOf(ret)[k].name \notin CUSTOM_TOOLS

\* the third response received is returned with two requests, both for
\* an unregistered tool, after two rounds that ran tools
C17_Witness ==
    /\ pc = "returned" /\ ret.id = 3 /\ nsubmit = 2 /\ nexec >= 2
    /\ Len(ToolCalls(ret)) = 2

-----------------------------------------------------------------------------
(* C18: two interleaved invocations of run_with_tools do not interfere: a   *)
(* step of one leaves the locals of the other alone, every batch submitted   *)
(* holds only ids of requests of the submitter's own current response and is *)
(* sent with that response's id, and every response an invocation holds or   *)
(* returns belongs to the conversation its own create opened.                *)
C18_InvocationsIndependent ==
    [][ /\ (locals'[1] = locals[1] \/ locals'[2] = locals[2])
        /\ \A i \in Invocations :
             /\ (locals'[i].nsub # locals[i].nsub =>
                   LET sent == locals'[i].sent
                       cur == locals[i].resp
                   IN  /\ sent.response_id = cur.id
                       /\ ConvOf(sent.response_id) = i
                       /\ sent.tool_outputs # <<>>
                       /\ \A k \in 1..Len(sent.tool_outputs) :
                            \E c \in 1..Len(ToolCalls(cur)) :
                               ToolCalls(cur)[c].id = sent.tool_outputs[k].tool_call_id)
             /\ (locals'[i].resp # NoResp => ConvOf(locals'[i].resp.id) = i)
             /\ (locals'[i].pc = "returned" =>
                   /\ locals'[i].ret = locals'[i].resp
                   /\ ConvOf(locals'[i].ret.id) = i)
      ]_vars

\* both invocations are in their second round at the same time: one is
\* running tools, the other has just submitted and then returns
C18_Witness ==
    /\ locals[1].pc = "dispatch" /\ locals[1].nsub = 1 /\ locals[1].idx = 2
    /\ Len(locals[1].tool_outputs) = 1
    /\ locals[2].pc = "scan" /\ locals[2].nsub = 1
    /\ locals[2].sent.op = "submit" /\ Len(locals[2].sent.tool_outputs) = 2

====
